---- MODULE Spec2Model ----
(***************************************************************************)
(* A model of js-utilities' two deferred-batching primitives:              *)
(*   - lib/idle-queue.ts : createQueue (the bounded queue) and             *)
(*                         createScheduler (the idle queue scheduler)      *)
(*   - lib/state.ts      : StateSubscriber and State (the state store)     *)
(*   - lib/next-time.ts  : nextTime (the deferral scheduler)               *)
(* The event loop is single threaded: an action is one run-to-completion   *)
(* piece of code (an API call by the application, a booked callback the    *)
(* host fires, the continuation of an await, one subscriber invocation of  *)
(* a notification pass).                                                   *)
(***************************************************************************)
EXTENDS Integers, Sequences, FiniteSets, TLC

VARIABLES
    sch,     \* the idle queue scheduler, its queue and the host's booked callbacks
    bq,      \* a bounded queue used on its own (createQueue)
    store,   \* the state store, its subscribers and the host's booked callbacks
    dfr      \* a host on which nextTime is called directly, and the calls made

vars == <<sch, bq, store, dfr>>

(***************************************************************************)
(* Bounds of the model.                                                    *)
(***************************************************************************)
\* how many distinct items the application enqueues
NumItems == 2
\* how many enqueue / add calls the application makes
MaxEnqueue == 3
\* the largest batchSize option tried (0 stands for "not given")
MaxBatch == 2
\* how many destroy calls the application makes
MaxDestroy == 1
\* the largest count passed to take() on a bare queue
MaxTake == 3
\* how many take() calls are made on a bare queue
MaxTakeCalls == 3

\* how many setState calls are made on a store
MaxSetState == 2
\* how many promise-form setState calls are made on a store
MaxPromise == 1
\* how deep notification passes nest (immediateFlush: a callback that calls
\* setState starts a pass inside the pass that invoked it)
MaxDepth == 2
\* how many records _removedSubscribers holds before the application stops
\* calling unsubscribe closures
MaxUnsub == 1
\* how many dispose calls the application makes
MaxDispose == 1
\* nextTime is called at most this many times on its own
MaxSchedule == 3
\* exceptions thrown by subscriber callbacks
MaxThrow == 2

Items == 1..NumItems

Min(a, b) == IF a < b THEN a ELSE b

Range(s) == {s[i] : i \in 1..Len(s)}

(***************************************************************************)
(* lib/next-time.ts                                                        *)
(***************************************************************************)
\* what the global name of a host facility gives when nextTime reads it: a
\* function, a value that is not truthy (declared, undefined), or a
\* ReferenceError (the host does not declare the name)
Facilities == {"function", "undefined", "undeclared"}

\* the host: its requestIdleCallback and its requestAnimationFrame
Hosts == [idle : Facilities, frame : Facilities]

\* a host that has both facilities
Browser == [idle |-> "function", frame |-> "function"]

\* the test of the else-if and what follows it: requestAnimationFrame, else
\* setTimeout
FrameOrTimeout(host) ==
    IF host.frame = "undeclared" THEN "throws"
    ELSE IF host.frame = "function" THEN "frame"
    ELSE "timeout"

\* the mechanism nextTime picks; "throws" when it reads a name the host does
\* not declare (requestIdleCallback is read only when useIdle is truthy)
Mechanism(host, useIdle) ==
    IF useIdle
    THEN IF host.idle = "undeclared" THEN "throws"
         ELSE IF host.idle = "function" THEN "idle"
         ELSE FrameOrTimeout(host)
    ELSE FrameOrTimeout(host)

\* nextTime(callback, {useIdle}): books `callback` (named by `owner`) with the
\* host under the id the host hands out, which the returned cancel closure
\* holds; books nothing when it throws
nextTime(m, id, owner, useIdle) ==
    IF Mechanism(m.host, useIdle) = "throws" THEN m
    ELSE [m EXCEPT !.timers = @ \cup {[id |-> id, owner |-> owner,
                                       mech |-> Mechanism(m.host, useIdle)]}]

\* the closure nextTime returns: cancelIdleCallback / cancelAnimationFrame /
\* clearTimeout of the id; a no-op when the callback fired or was cancelled
CancelTimer(m, id) ==
    [m EXCEPT !.timers = {t \in @ : t.id # id}]

\* the primitive the cancel closure of each branch calls
CancelPrimitive(mech) ==
    IF mech = "idle" THEN "cancelIdleCallback"
    ELSE IF mech = "frame" THEN "cancelAnimationFrame"
    ELSE "clearTimeout"

\* the host's primitive applied to an id: it unbooks what the booking
\* function of its own kind booked under that id, and nothing else
HostCancel(m, primitive, id) ==
    [m EXCEPT !.timers = {t \in @ : ~(t.id = id /\ CancelPrimitive(t.mech) = primitive)}]

\* a host on which the application calls nextTime directly: what is booked,
\* and for each call made its useIdle option, whether it threw, the id the
\* host handed out and the primitive its cancel closure calls with that id
Deferral(host) == [host |-> host, timers |-> {}, calls |-> <<>>]

\* the application calls nextTime(callback, {useIdle}) and keeps the closure
Schedule(useIdle) ==
    /\ Len(dfr.calls) < MaxSchedule
    /\ LET id == Len(dfr.calls) + 1
           mech == Mechanism(dfr.host, useIdle)
       IN  dfr' = [nextTime(dfr, id, "callback", useIdle) EXCEPT
                      !.calls = Append(@, [useIdle |-> useIdle, threw |-> mech = "throws",
                                           id |-> id, primitive |-> CancelPrimitive(mech),
                                           cancelled |-> FALSE, fired |-> FALSE])]
    /\ UNCHANGED <<sch, bq, store>>

\* the application calls the closure the k-th nextTime call returned
CallCancel(k) ==
    /\ k \in 1..Len(dfr.calls)
    /\ ~dfr.calls[k].threw /\ ~dfr.calls[k].cancelled
    /\ dfr' = [HostCancel(dfr, dfr.calls[k].primitive, dfr.calls[k].id) EXCEPT
                  !.calls[k].cancelled = TRUE]
    /\ UNCHANGED <<sch, bq, store>>

\* the host runs a booked callback
FireCallback(t) ==
    /\ t \in dfr.timers
    /\ dfr' = [dfr EXCEPT !.timers = @ \ {t}, !.calls[t.id].fired = TRUE]
    /\ UNCHANGED <<sch, bq, store>>

(***************************************************************************)
(* lib/idle-queue.ts: createQueue                                          *)
(***************************************************************************)
\* const items = []; const uniqueItems = new Set()
createQueue(unique) ==
    [unique |-> unique, items |-> <<>>, uniqueItems |-> <<>>]

\* size()
size(qu) == IF qu.unique THEN Len(qu.uniqueItems) ELSE Len(qu.items)

\* a Set whose add moves an element already present to the end
SetAddMovesToEnd(s, item) ==
    Append(SelectSeq(s, LAMBDA x : x # item), item)

\* Set.prototype.add: insertion ordered, an element already present keeps its place
SetAdd(s, item) == IF item \in Range(s) THEN s ELSE Append(s, item)

\* add(item)
add(qu, item) ==
    IF qu.unique THEN [qu EXCEPT !.uniqueItems = SetAdd(@, item)]
    ELSE [qu EXCEPT !.items = Append(@, item)]

\* the unique branch of take: count times, push the set's first value and delete it
RECURSIVE TakeUnique(_, _, _)
TakeUnique(s, count, took) ==
    IF count <= 0 THEN [took |-> took, rest |-> s]
    ELSE TakeUnique(Tail(s), count - 1, Append(took, Head(s)))

\* Array.prototype.splice(0, count) for count >= 0
Splice0(s, count) ==
    [took |-> SubSeq(s, 1, Min(count, Len(s))),
     rest |-> SubSeq(s, Min(count, Len(s)) + 1, Len(s))]

\* take(count): the items taken and the queue left
take(qu, count) ==
    LET c == IF count > size(qu) THEN size(qu) ELSE count
    IN  IF qu.unique
        THEN LET r == TakeUnique(qu.uniqueItems, c, <<>>)
             IN  [took |-> r.took, q |-> [qu EXCEPT !.uniqueItems = r.rest]]
        ELSE LET r == Splice0(qu.items, c)
             IN  [took |-> r.took, q |-> [qu EXCEPT !.items = r.rest]]

\* destroy() of the queue
QueueDestroy(qu) == [qu EXCEPT !.items = <<>>, !.uniqueItems = <<>>]

(***************************************************************************)
(* lib/idle-queue.ts: createScheduler                                      *)
(***************************************************************************)
\* what a hook returns: "none" is no hook (_onTake undefined), a "sync" hook
\* returns undefined, an "async" hook returns a Promise
HookKinds == {"none", "sync", "async"}

SchedulerOptions ==
    [useIdle : BOOLEAN, batchSize : 0..MaxBatch, block : BOOLEAN, unique : BOOLEAN]

\* createScheduler(options): _cancel = undefined (0), _onTake = options.hooks.onTake
createScheduler(options, hook, host) ==
    [opts |-> options, host |-> host,
     q |-> createQueue(options.unique),
     cancel |-> 0, onTake |-> hook,
     timers |-> {}, nextId |-> 1,
     \* the awaitables hooks returned that have not settled; awaited: _process
     \* is suspended on it
     pending |-> {},
     \* the hook's invocations: the batch, what it returned, and how many
     \* awaitables of earlier invocations had not settled when it started
     hookLog |-> <<>>,
     \* history: calls made, items the queue accepted, drains fired
     enqueues |-> 0, destroys |-> 0, added |-> <<>>, fired |-> FALSE,
     lateEnqueue |-> FALSE, rejected |-> FALSE, hookChanged |-> FALSE]

\* a _next that books a drain although one is already booked
NextUnguarded(s) ==
    IF size(s.q) = 0 THEN s
    ELSE IF Mechanism(s.host, s.opts.useIdle) = "throws" THEN s
    ELSE LET b == nextTime(s, s.nextId, "drain", s.opts.useIdle)
         IN  [b EXCEPT !.cancel = s.nextId, !.nextId = @ + 1]

\* _next(): nothing to do when the queue is empty or _cancel is set; else book
\* the drain callback and keep its cancel closure in _cancel (nothing is
\* assigned when nextTime throws)
_next(s) ==
    IF size(s.q) = 0 THEN s
    ELSE IF s.cancel # 0 THEN s
    ELSE IF Mechanism(s.host, s.opts.useIdle) = "throws" THEN s
    ELSE LET b == nextTime(s, s.nextId, "drain", s.opts.useIdle)
         IN  [b EXCEPT !.cancel = s.nextId, !.nextId = @ + 1]

\* enqueue(item)
enqueue(s, item) == _next([s EXCEPT !.q = add(@, item)])

\* isPromise(result), for the result of a hook of the given kind
isPromise(kind) == kind = "async"

\* _process() up to its await (or to its end when it does not await): take a
\* batch, call the hook, and either suspend on the hook's promise (block) or go on
_process(s) ==
    LET n == IF s.opts.batchSize = 0 THEN 1 ELSE s.opts.batchSize
        tk == take(s.q, n)
        called == s.onTake # "none"
        promise == called /\ isPromise(s.onTake)
        s1 == [s EXCEPT !.q = tk.q,
                        !.hookLog = IF called
                                    THEN Append(@, [items |-> tk.took,
                                                    result |-> IF promise THEN "promise" ELSE "undefined",
                                                    inflight |-> Cardinality(s.pending)])
                                    ELSE @]
        s2 == IF promise
              THEN [s1 EXCEPT !.pending = @ \cup {[id |-> s.nextId, awaited |-> s.opts.block]},
                              !.nextId = @ + 1]
              ELSE s1
    IN  IF promise /\ s.opts.block THEN s2
        ELSE IF s.opts.block THEN _next(s2) ELSE s2

\* the rest of _process() after `await p` resumed: if (block) _next()
ProcessResume(s) == IF s.opts.block THEN _next(s) ELSE s

\* the callback _next books: () => { _process(); if (!block) _next(); }
DrainCallback(s) ==
    LET s1 == _process(s)
    IN  IF ~s.opts.block THEN _next(s1) ELSE s1

\* onTake(callback)
onTake(s, hook) == [s EXCEPT !.onTake = hook]

\* a destroy that does not call _cancel
DestroyNoCancel(s) ==
    [s EXCEPT !.q = QueueDestroy(@), !.onTake = "none"]

\* destroy(): q.destroy(); _onTake = undefined; _cancel?.()
destroy(s) ==
    LET s1 == [s EXCEPT !.q = QueueDestroy(@), !.onTake = "none"]
    IN  IF s.cancel # 0 THEN CancelTimer(s1, s.cancel) ELSE s1

(***************************************************************************)
(* The scheduler's actions                                                 *)
(***************************************************************************)
\* the application calls enqueue(item)
Enqueue(item) ==
    /\ sch.enqueues < MaxEnqueue
    /\ LET before == size(sch.q)
           s1 == enqueue(sch, item)
       IN  sch' = [s1 EXCEPT !.enqueues = @ + 1,
                             !.added = IF size(s1.q) > before THEN Append(@, item) ELSE @,
                             !.lateEnqueue = @ \/ sch.fired]
    /\ UNCHANGED <<bq, store, dfr>>

\* the application calls onTake(callback)
OnTake(hook) ==
    /\ hook # sch.onTake
    /\ hook # "none"
    /\ sch' = [onTake(sch, hook) EXCEPT !.hookChanged = TRUE]
    /\ UNCHANGED <<bq, store, dfr>>

\* the application calls destroy()
Destroy ==
    /\ sch.destroys < MaxDestroy
    /\ sch' = [destroy(sch) EXCEPT !.destroys = @ + 1, !.added = <<>>]
    /\ UNCHANGED <<bq, store, dfr>>

\* the host fires a booked drain callback
FireDrain(t) ==
    /\ t \in sch.timers
    /\ sch' = [DrainCallback([sch EXCEPT !.timers = @ \ {t}]) EXCEPT !.fired = TRUE]
    /\ UNCHANGED <<bq, store, dfr>>

\* the promise a hook returned resolves; an await on it resumes _process
ResolveHook(p) ==
    /\ p \in sch.pending
    /\ LET s1 == [sch EXCEPT !.pending = @ \ {p}]
       IN  sch' = IF p.awaited THEN ProcessResume(s1) ELSE s1
    /\ UNCHANGED <<bq, store, dfr>>

\* the promise a hook returned rejects; an await on it throws out of _process,
\* which nothing catches
RejectHook(p) ==
    /\ p \in sch.pending
    /\ sch' = [sch EXCEPT !.pending = @ \ {p}, !.rejected = TRUE]
    /\ UNCHANGED <<bq, store, dfr>>

(***************************************************************************)
(* A bounded queue on its own: add, take and destroy called directly       *)
(***************************************************************************)
\* the queue, the adds it accepted and the batches taken since it was last
\* emptied by destroy(), and the last call with the queue before it
BareQueue(unique) ==
    [q |-> createQueue(unique), accepted |-> <<>>, taken |-> <<>>,
     adds |-> 0, takes |-> 0,
     last |-> [op |-> "new", arg |-> 0, before |-> <<>>, took |-> <<>>]]

\* the queue's content, front first
Content(qu) == IF qu.unique THEN qu.uniqueItems ELSE qu.items

BQAdd(item) ==
    /\ bq.adds < MaxEnqueue
    /\ LET q1 == add(bq.q, item)
       IN  bq' = [bq EXCEPT !.q = q1, !.adds = @ + 1,
                            !.accepted = IF size(q1) > size(bq.q) THEN Append(@, item) ELSE @,
                            !.last = [op |-> "add", arg |-> item,
                                      before |-> Content(bq.q), took |-> <<>>]]
    /\ UNCHANGED <<sch, store, dfr>>

BQTake(count) ==
    /\ bq.takes < MaxTakeCalls
    /\ LET r == take(bq.q, count)
       IN  bq' = [bq EXCEPT !.q = r.q, !.takes = @ + 1,
                            !.taken = @ \o r.took,
                            !.last = [op |-> "take", arg |-> count,
                                      before |-> Content(bq.q), took |-> r.took]]
    /\ UNCHANGED <<sch, store, dfr>>

BQDestroy ==
    /\ size(bq.q) > 0
    /\ bq' = [bq EXCEPT !.q = QueueDestroy(@), !.accepted = <<>>, !.taken = <<>>,
                        !.last = [op |-> "destroy", arg |-> 0,
                                  before |-> Content(bq.q), took |-> <<>>]]
    /\ UNCHANGED <<sch, store, dfr>>

(***************************************************************************)
(* lib/state.ts: values, objects and patches                               *)
(***************************************************************************)
\* the fields of the state type T
Keys == {"count", "foo"}

\* JavaScript values: a number n, the numeric string "n", and undefined
Num(n) == <<"number", n>>
Str(n) == <<"string", n>>
Undefined == <<"undefined", 0>>

\* an object's own properties are a function on a subset of Keys; reading a
\* missing property gives undefined
Get(o, k) == IF k \in DOMAIN o THEN o[k] ELSE Undefined

\* the empty object {}
EmptyObject == [k \in {} |-> Undefined]

\* a == b: the same type compares the value; a number and a string compare the
\* string's numeric value to the number; undefined equals only undefined
LooseEquals(a, b) ==
    IF a[1] = "undefined" \/ b[1] = "undefined" THEN a[1] = b[1]
    ELSE a[2] = b[2]

\* an Object.assign whose later sources lose to the earlier ones
RECURSIVE ObjectAssignFirstWins(_, _)
ObjectAssignFirstWins(target, sources) ==
    IF Len(sources) = 0 THEN target
    ELSE LET src == Head(sources)
         IN  ObjectAssignFirstWins(
                 [k \in DOMAIN target \cup DOMAIN src |->
                     IF k \in DOMAIN target THEN target[k] ELSE src[k]],
                 Tail(sources))

\* Object.assign(target, ...sources): the sources' own properties are copied
\* onto the target, left to right
RECURSIVE ObjectAssign(_, _)
ObjectAssign(target, sources) ==
    IF Len(sources) = 0 THEN target
    ELSE LET src == Head(sources)
         IN  ObjectAssign(
                 [k \in DOMAIN target \cup DOMAIN src |->
                     IF k \in DOMAIN src THEN src[k] ELSE target[k]],
                 Tail(sources))

\* the patches the application passes to setState
Patches ==
    { [k \in {"count"} |-> Num(1)],
      [k \in {"count"} |-> Str(1)],
      [k \in {"foo"} |-> Str(0)] }

\* the patch picked when none is needed
NoPatch == CHOOSE p \in Patches : TRUE

\* the initial state passed to createState: {count: 0}
InitialState == [k \in {"count"} |-> Num(0)]

\* the key lists the application passes to subscribe with each of its
\* callbacks (the empty one stands for no keys)
KeyLists(cb) == IF cb = 1 THEN {{}} ELSE {{"count"}, {"count", "foo"}}

\* the application's subscriber callbacks; the wrapper the k-th promise-form
\* setState creates is callback -k
Callbacks == {1, 2}

(***************************************************************************)
(* lib/state.ts: StateSubscriber                                           *)
(***************************************************************************)
\* _subscribers.findIndex / find by callback reference: the first index, or 0
FindSubscriber(subs, cb) ==
    IF \E i \in 1..Len(subs) : subs[i].cb = cb
    THEN CHOOSE i \in 1..Len(subs) :
             /\ subs[i].cb = cb
             /\ \A j \in 1..(i - 1) : subs[j].cb # cb
    ELSE 0

\* a subscribe that pushes a record although the callback is registered
SubscribeNoDedup(s, cb, keys) ==
    [s EXCEPT !.subscribers = Append(@, [cb |-> cb, keys |-> keys])]

\* subscribe(subscriber, keys): push {subscriber, keys} unless the callback is
\* registered already (an empty key list is dropped: keys = {}); the closure
\* returned unsubscribes the callback
subscribe(s, cb, keys) ==
    IF FindSubscriber(s.subscribers, cb) = 0
    THEN [s EXCEPT !.subscribers = Append(@, [cb |-> cb, keys |-> keys])]
    ELSE s

\* the closure subscribe returns: push the callback's record, if there is one,
\* onto _removedSubscribers
unsubscribe(s, cb) ==
    LET i == FindSubscriber(s.subscribers, cb)
    IN  IF i = 0 THEN s
        ELSE [s EXCEPT !.removed = Append(@, s.subscribers[i])]

\* isStateChangedWithKeys(prevState, newState, keys): some listed key's value
\* differs under !=
isStateChangedWithKeys(prevState, newState, keys) ==
    IF prevState.id = newState.id THEN FALSE
    ELSE IF keys = {} THEN FALSE
    ELSE \E k \in keys : ~LooseEquals(Get(prevState.val, k), Get(newState.val, k))

\* notify's test of one record: no keys, or a listed key changed
ShouldInvoke(rec, state, prevState) ==
    IF rec.keys = {} THEN TRUE
    ELSE isStateChangedWithKeys(prevState, state, rec.keys)

\* the records of subs that are not in removed (indexOf(sub) == -1)
Remaining(subs, removed) ==
    SelectSeq(subs, LAMBDA r : r \notin Range(removed))

\* a pass of notify, as a frame of the call stack: the array forEach iterates
\* (alias: the _subscribers array itself, else the array notify built), the
\* index forEach is at and the length it read at its start, notify's two
\* arguments, and what the caller does once the pass returns. For the record:
\* the subscribers live when the pass started, the callbacks it invoked (with
\* the state each received), the callbacks unsubscribed during the pass, the
\* callbacks unsubscribed before the pass, whether a callback of the pass
\* started a pass of its own, and the flush the pass belongs to
Frame(alias, list, n, state, prevState, after, flushed, unsubscribedBefore) ==
    [alias |-> alias, list |-> list, i |-> 0, n |-> n,
     st |-> state, prev |-> prevState, after |-> after,
     live |-> list, called |-> <<>>, unsubbed |-> {}, nested |-> FALSE,
     goneAtStart |-> unsubscribedBefore, flushed |-> flushed]

\* notify(state, prevState) up to its forEach: with nothing removed the pass
\* iterates the _subscribers array itself; else it builds the array of the
\* remaining records, splices it into _subscribers in place, empties
\* _removedSubscribers and iterates the array it built
notify(s, state, prevState, after, flushed) ==
    LET none == Len(s.removed) = 0
        rest == Remaining(s.subscribers, s.removed)
    IN  [s EXCEPT !.subscribers = IF none THEN @ ELSE rest,
                  !.removed = <<>>,
                  !.stack = Append(@,
                      Frame(none, rest, Len(rest), state, prevState, after, flushed,
                            {r.cb : r \in Range(s.removed)}))]

\* a StateSubscriber.dispose that keeps the subscribers
SubscriberDisposeKeeps(s) ==
    [s EXCEPT !.removed = <<>>]

\* StateSubscriber.dispose()
SubscriberDispose(s) ==
    [s EXCEPT !.subscribers = <<>>, !.removed = <<>>]

(***************************************************************************)
(* lib/state.ts: State                                                     *)
(***************************************************************************)
\* what is left of a call after the synchronous tick it made
NoAfter == [kind |-> "none", cb |-> 0]

\* flush(state): swap _state and notify
flush(s, newState, after, flushed) ==
    notify([s EXCEPT !.state = newState], newState, s.state, after, flushed)

\* the object identities some reference holds: _state, the arguments of the
\* passes in progress, the values promises were resolved with
LiveObjects(s) ==
    {s.state.id}
    \cup {s.stack[d].st.id : d \in 1..Len(s.stack)}
    \cup {s.stack[d].prev.id : d \in 1..Len(s.stack)}
    \cup {s.promises[k].value : k \in 1..Len(s.promises)}
    \cup {s.promises[k].applied : k \in 1..Len(s.promises)}

\* no allocation: the target of Object.assign is the current state object
SameObject(s) == s.state.id

\* a newly allocated object: an identity no live reference has
NewObject(s) == CHOOSE n \in 1..(Cardinality(LiveObjects(s)) + 1) : n \notin LiveObjects(s)

\* the ids of the host's bookings that something still holds
LiveTimers(s) ==
    {t.id : t \in s.timers} \cup {s.promises[k].timer : k \in 1..Len(s.promises)}

\* the id the host gives a new booking
NewTimer(s) == CHOOSE n \in 1..(Cardinality(LiveTimers(s)) + 1) : n \notin LiveTimers(s)

\* a splice that leaves the last patch out of the drained ones
SpliceAllButLast(changes) ==
    SubSeq(changes, 1, IF Len(changes) > 1 THEN Len(changes) - 1 ELSE Len(changes))

\* _stateChanges.splice(0, length): the patches drained
SpliceAll(changes) == SubSeq(changes, 1, Len(changes))

\* tick(): clear dirty, drain the patches, merge them over a copy of _state
\* (or copy _state when there is none) and flush
tick(s, after) ==
    LET flushable == SpliceAll(s.stateChanges)
        left == SubSeq(s.stateChanges, Len(flushable) + 1, Len(s.stateChanges))
        patches == [i \in 1..Len(flushable) |-> flushable[i].patch]
        val == IF Len(s.stateChanges) > 0
               THEN ObjectAssign(EmptyObject, <<EmptyObject, s.state.val>> \o patches)
               ELSE ObjectAssign(EmptyObject, <<s.state.val>>)
        newState == [id |-> NewObject(s), val |-> val]
        s1 == [s EXCEPT !.dirty = FALSE,
                        !.stateChanges = left,
                        !.requested = <<>>,
                        !.promises = [k \in DOMAIN @ |->
                            IF \E i \in 1..Len(flushable) : flushable[i].by = k
                            THEN [@[k] EXCEPT !.applied = newState.id]
                            ELSE @[k]]]
    IN  flush(s1, newState, after,
              [requested |-> s.requested,
               pendingBefore |-> [i \in 1..Len(s.stateChanges) |-> s.stateChanges[i].patch],
               pendingAfter |-> Len(left)])

\* a markDirty that schedules a flush on every call
MarkDirtyUnguarded(s, after) ==
    IF s.immediateFlush THEN tick([s EXCEPT !.dirty = TRUE], after)
    ELSE nextTime([s EXCEPT !.dirty = TRUE], NewTimer(s), "tick", FALSE)

\* markDirty(): on the false -> true edge of _dirty, tick now (immediateFlush)
\* or book tick with nextTime
markDirty(s, after) ==
    IF s.dirty THEN s
    ELSE IF s.immediateFlush THEN tick([s EXCEPT !.dirty = TRUE], after)
    ELSE nextTime([s EXCEPT !.dirty = TRUE], NewTimer(s), "tick", FALSE)

\* new State(initialState, immediateFlush)
createState(initialState, immediateFlush, host) ==
    markDirty(
        [immediateFlush |-> immediateFlush, host |-> host,
         state |-> [id |-> 1, val |-> initialState],
         stateChanges |-> <<>>, dirty |-> FALSE,
         subscribers |-> <<>>, removed |-> <<>>,
         timers |-> {},
         \* the promises of the promise-form setState calls
         promises |-> <<>>,
         \* the notification passes in progress, innermost last
         stack |-> <<>>,
         \* history: the patches passed to setState since the last tick, and
         \* the calls made
         requested |-> <<>>, setStates |-> 0, disposes |-> 0,
         \* the exceptions callbacks threw, and the passes the last one left
         throws |-> 0, aborted |-> <<>>,
         \* the records passed to subscribe for a callback whose closure had
         \* been called since the last pass, and not called again since
         again |-> {}],
        NoAfter)

\* createSubscribeWrapper()(resolve, reject): subscribe the wrapper of promise
\* k and book the timeout that rejects it
SubscribeWrapper(s, k) ==
    LET s1 == subscribe(s, -k, {})
    IN  [s1 EXCEPT !.timers = @ \cup {[id |-> NewTimer(s1), owner |-> "timeout", mech |-> "timeout"]},
                   !.promises[k].timer = NewTimer(s1)]

\* the part of setState after markDirty(): subscribe the callback, or create
\* the promise and its wrapper
RunAfter(s, after) ==
    IF after.kind = "subscribe" THEN subscribe(s, after.cb, {})
    ELSE IF after.kind = "promise" THEN SubscribeWrapper(s, after.cb)
    ELSE s

\* setState(state, subscriber?): mode is the subscriber callback, or 0 for the
\* promise form. When markDirty ticks, the rest runs once that pass is over
setState(s, patch, mode) ==
    LET k == Len(s.promises) + 1
        after == IF mode = 0 THEN [kind |-> "promise", cb |-> k]
                 ELSE [kind |-> "subscribe", cb |-> mode]
        s1 == [s EXCEPT !.stateChanges = Append(@, [patch |-> patch, by |-> IF mode = 0 THEN k ELSE 0]),
                        !.requested = Append(@, patch),
                        !.promises = IF mode = 0
                                     THEN Append(@, [status |-> "pending", value |-> 0, timer |-> 0,
                                                     applied |-> 0, expiredFirst |-> FALSE])
                                     ELSE @]
        s2 == markDirty(s1, after)
    IN  IF Len(s2.stack) > Len(s.stack) THEN s2 ELSE RunAfter(s2, after)

\* dispose()
dispose(s) ==
    SubscriberDispose([s EXCEPT !.stateChanges = <<>>,
                                !.state = [id |-> NewObject(s), val |-> EmptyObject]])

\* the wrapper of promise k is invoked with `state`: clearTimeout(id),
\* resolve(state), unsub()
Wrapper(s, k, state) ==
    LET s1 == CancelTimer(s, s.promises[k].timer)
        s2 == IF s1.promises[k].status = "pending"
              THEN [s1 EXCEPT !.promises[k].status = "resolved",
                              !.promises[k].value = state.id]
              ELSE s1
    IN  unsubscribe(s2, -k)

\* a setState that returns the promise without .catch(noop): the rejection
\* reaches the caller
ReturnedNoCatch(p) == [status |-> p.status, value |-> p.value]

\* what setState returns in the promise form: new Promise(...).catch(noop), a
\* promise that follows the inner one when it resolves and resolves with
\* noop's result, undefined (value 0), when the inner one rejects
Returned(p) ==
    IF p.status = "rejected" THEN [status |-> "resolved", value |-> 0]
    ELSE [status |-> p.status, value |-> p.value]

(***************************************************************************)
(* The state store's actions. While a notification pass is in progress     *)
(* (the stack is not empty) only the pass runs: the code is synchronous.   *)
(***************************************************************************)
\* the array a pass iterates: _subscribers itself, or the array notify built
PassArray(s, f) == IF f.alias THEN s.subscribers ELSE f.list

\* the innermost pass moves to its next index, having invoked `called`
Advance(s, called) ==
    LET d == Len(s.stack)
    IN  [s EXCEPT !.stack[d].i = @ + 1,
                  !.stack[d].called = @ \o called]

\* forEach is over: the pass returns to its caller, which runs what is left of it
PopFrame(s) ==
    LET d == Len(s.stack)
    IN  RunAfter([s EXCEPT !.stack = SubSeq(@, 1, d - 1)], s.stack[d].after)

\* a callback calls an unsubscribe closure during the innermost pass
UnsubscribeInPass(s, cb) ==
    LET d == Len(s.stack)
    IN  [unsubscribe(s, cb) EXCEPT !.stack[d].unsubbed = @ \cup {cb}]

\* s after a callback of the pass at depth d returned from setState: when the
\* call started a pass (immediateFlush), that pass runs inside pass d
InPass(s, d) ==
    IF Len(s.stack) > d THEN [s EXCEPT !.stack[d].nested = TRUE] ELSE s

\* the closures the application may call: those of registered callbacks, while
\* _removedSubscribers is short
Closures(s) ==
    IF Len(s.removed) < MaxUnsub
    THEN {cb \in Callbacks : FindSubscriber(s.subscribers, cb) # 0}
    ELSE {}

\* the setState calls made are bounded, and those in the promise form
MaySetState(s, mode) ==
    /\ s.setStates < MaxSetState
    /\ mode = 0 => Len(s.promises) < MaxPromise

\* what the application callback cb does when invoked. Callback 1 may call one
\* unsubscribe closure and then setState, in the promise form or with itself
\* as the subscriber; the other callbacks only read the state
Behaviours(s, cb) ==
    [unsub : IF cb = 1 THEN {0} \cup Closures(s) ELSE {0},
     set : IF cb = 1 THEN BOOLEAN ELSE {FALSE},
     patch : Patches, mode : {0, cb}]

\* one step of forEach in the innermost pass: past the end of the array the
\* index is skipped; else the record is tested and its callback invoked. With
\* `plain` the application's callbacks call no unsubscribe closure and use
\* setState with a callback only
ForEachStep(plain) ==
    /\ store.stack # <<>>
    /\ LET d == Len(store.stack)
           f == store.stack[d]
           arr == PassArray(store, f)
       IN  IF f.i >= f.n THEN store' = PopFrame(store)
           ELSE IF f.i >= Len(arr) THEN store' = Advance(store, <<>>)
           ELSE LET rec == arr[f.i + 1]
                    s0 == Advance(store, <<[cb |-> rec.cb, st |-> f.st.id]>>)
                IN  IF ~ShouldInvoke(rec, f.st, f.prev) THEN store' = Advance(store, <<>>)
                    ELSE IF rec.cb < 0
                    THEN store' = UnsubscribeInPass(
                                      [Wrapper(s0, -rec.cb, f.st) EXCEPT !.removed = s0.removed],
                                      rec.cb)
                    ELSE \E b \in Behaviours(store, rec.cb) :
                            /\ b.set => (MaySetState(store, b.mode) /\ Len(store.stack) < MaxDepth)
                            /\ plain => (b.unsub = 0 /\ (b.set => b.mode # 0))
                            /\ ~b.set => (b.patch = NoPatch /\ b.mode = 0)
                            /\ LET s1 == IF b.unsub # 0 THEN UnsubscribeInPass(s0, b.unsub) ELSE s0
                               IN  store' = IF b.set
                                            THEN InPass(setState([s1 EXCEPT !.setStates = @ + 1], b.patch, b.mode), d)
                                            ELSE s1
    /\ UNCHANGED <<sch, bq, dfr>>

\* a forEach that catches what a callback throws and goes on with the next
\* record
ThrowCaught(s, cb) ==
    LET d == Len(s.stack)
        s0 == Advance(s, <<[cb |-> cb, st |-> s.stack[d].st.id]>>)
    IN  [s0 EXCEPT !.aborted = s0.stack, !.throws = @ + 1]

\* callback cb, invoked by the innermost pass, throws: nothing catches, so the
\* exception leaves forEach, notify, flush, tick and every caller up the call
\* stack (the passes in progress and the setState calls that started them)
Throw(s, cb) ==
    LET d == Len(s.stack)
        s0 == Advance(s, <<[cb |-> cb, st |-> s.stack[d].st.id]>>)
    IN  [s0 EXCEPT !.stack = <<>>, !.aborted = s0.stack, !.throws = @ + 1]

\* one step of forEach in the innermost pass in which the application's
\* callback throws as soon as it is invoked
CallbackThrows ==
    /\ store.stack # <<>>
    /\ store.throws < MaxThrow
    /\ LET d == Len(store.stack)
           f == store.stack[d]
           arr == PassArray(store, f)
       IN  /\ f.i < f.n /\ f.i < Len(arr)
           /\ arr[f.i + 1].cb > 0
           /\ ShouldInvoke(arr[f.i + 1], f.st, f.prev)
           /\ store' = Throw(store, arr[f.i + 1].cb)
    /\ UNCHANGED <<sch, bq, dfr>>

\* a step of a pass, the callbacks doing whatever the application may do
NotifyStep == ForEachStep(FALSE)

\* a step of a pass of an application that only registers: no closure is
\* called, no promise is asked for
NotifyStepPlain == ForEachStep(TRUE)

\* the application calls subscribe(callback, keys)
Subscribe(cb, keys) ==
    /\ store.stack = <<>> /\ store.disposes = 0
    /\ store' = subscribe(store, cb, keys)
    /\ UNCHANGED <<sch, bq, dfr>>

\* the application calls the closure subscribe returned for callback cb
Unsubscribe(cb) ==
    /\ store.stack = <<>> /\ store.disposes = 0
    /\ cb \in Closures(store)
    /\ store' = [unsubscribe(store, cb) EXCEPT !.again = {r \in @ : r.cb # cb}]
    /\ UNCHANGED <<sch, bq, dfr>>

\* the application calls subscribe(callback, keys) with a callback whose
\* unsubscribe closure it has called and that no pass has pruned yet
SubscribeAgain(cb, keys) ==
    /\ store.stack = <<>> /\ store.disposes = 0
    /\ \E r \in Range(store.removed) : r.cb = cb
    /\ store' = [subscribe(store, cb, keys) EXCEPT
                     !.again = {r \in @ : r.cb # cb} \cup {[cb |-> cb, keys |-> keys]}]
    /\ UNCHANGED <<sch, bq, dfr>>

\* the application calls setState(patch) (mode 0) or setState(patch, callback)
SetState(patch, mode) ==
    /\ store.stack = <<>> /\ store.disposes = 0
    /\ MaySetState(store, mode)
    /\ store' = setState([store EXCEPT !.setStates = @ + 1], patch, mode)
    /\ UNCHANGED <<sch, bq, dfr>>

\* the application calls markDirty()
MarkDirty ==
    /\ store.stack = <<>> /\ store.disposes = 0
    /\ store' = markDirty(store, NoAfter)
    /\ UNCHANGED <<sch, bq, dfr>>

\* the application calls dispose(); the store is not used again, but what the
\* host has booked still fires
Dispose ==
    /\ store.stack = <<>>
    /\ store.disposes < MaxDispose
    /\ store' = dispose([store EXCEPT !.disposes = @ + 1])
    /\ UNCHANGED <<sch, bq, dfr>>

\* the host fires the callback markDirty booked: () => this.tick()
FireTick(t) ==
    /\ store.stack = <<>>
    /\ t \in store.timers /\ t.owner = "tick"
    /\ store' = tick([store EXCEPT !.timers = @ \ {t}], NoAfter)
    /\ UNCHANGED <<sch, bq, dfr>>

\* the host fires the timeout of a promise-form setState: error('state not
\* update') rejects the promise if it is still pending
FireTimeout(t) ==
    /\ store.stack = <<>>
    /\ t \in store.timers /\ t.owner = "timeout"
    /\ LET k == CHOOSE k \in 1..Len(store.promises) : store.promises[k].timer = t.id
       IN  store' = [store EXCEPT !.timers = @ \ {t},
                                  !.promises[k].status =
                                      IF @ = "pending" THEN "rejected" ELSE @,
                                  !.promises[k].expiredFirst =
                                      store.promises[k].applied = 0]
    /\ UNCHANGED <<sch, bq, dfr>>

(***************************************************************************)
(* Specifications                                                          *)
(***************************************************************************)
\* the parts a specification leaves alone stay as constructed
IdleSch == createScheduler([useIdle |-> FALSE, batchSize |-> 0, block |-> FALSE,
                            unique |-> FALSE], "none", Browser)
IdleBq == BareQueue(FALSE)
IdleStore == createState(InitialState, FALSE, Browser)
IdleDfr == Deferral(Browser)

\* the idle queue scheduler
InitQ ==
    /\ \E o \in SchedulerOptions, h \in HookKinds :
          sch = createScheduler(o, h, Browser)
    /\ bq = IdleBq
    /\ store = IdleStore
    /\ dfr = IdleDfr

NextQ ==
    \/ \E item \in Items : Enqueue(item)
    \/ \E h \in HookKinds : OnTake(h)
    \/ Destroy
    \/ \E t \in sch.timers : FireDrain(t)
    \/ \E p \in sch.pending : ResolveHook(p)
    \/ \E p \in sch.pending : RejectHook(p)

SpecQ == InitQ /\ [][NextQ]_vars

\* the bounded queue on its own
InitBQ ==
    /\ \E u \in BOOLEAN : bq = BareQueue(u)
    /\ sch = IdleSch
    /\ store = IdleStore
    /\ dfr = IdleDfr

NextBQ ==
    \/ \E item \in Items : BQAdd(item)
    \/ \E count \in 0..MaxTake : BQTake(count)
    \/ BQDestroy

SpecBQ == InitBQ /\ [][NextBQ]_vars

\* nextTime on its own, on every host
InitT ==
    /\ \E host \in Hosts : dfr = Deferral(host)
    /\ sch = IdleSch
    /\ bq = IdleBq
    /\ store = IdleStore

NextT ==
    \/ \E useIdle \in BOOLEAN : Schedule(useIdle)
    \/ \E k \in 1..MaxSchedule : CallCancel(k)
    \/ \E t \in dfr.timers : FireCallback(t)

SpecT == InitT /\ [][NextT]_vars

\* the state store
InitS ==
    /\ \E imm \in BOOLEAN :
          store = createState(InitialState, imm, Browser)
    /\ sch = IdleSch
    /\ bq = IdleBq
    /\ dfr = IdleDfr

NextS ==
    \/ NotifyStep
    \/ \E cb \in Callbacks : \E keys \in KeyLists(cb) : Subscribe(cb, keys)
    \/ \E cb \in Callbacks : Unsubscribe(cb)
    \/ \E patch \in Patches, mode \in {0} \cup Callbacks : SetState(patch, mode)
    \/ MarkDirty
    \/ Dispose
    \/ \E t \in store.timers : FireTick(t)
    \/ \E t \in store.timers : FireTimeout(t)

SpecS == InitS /\ [][NextS]_vars

\* the state store in deferred mode: createState(initialState) with
\* immediateFlush left at its default
InitD ==
    /\ store = IdleStore
    /\ sch = IdleSch
    /\ bq = IdleBq
    /\ dfr = IdleDfr

SpecD == InitD /\ [][NextS]_vars

\* the state store with every subscriber registered without keys
NextN ==
    \/ NotifyStep
    \/ \E cb \in Callbacks : Subscribe(cb, {})
    \/ \E cb \in Callbacks : Unsubscribe(cb)
    \/ \E patch \in Patches, mode \in {0} \cup Callbacks : SetState(patch, mode)
    \/ MarkDirty
    \/ Dispose
    \/ \E t \in store.timers : FireTick(t)
    \/ \E t \in store.timers : FireTimeout(t)

SpecN == InitS /\ [][NextN]_vars

\* the state store used through subscribe and setState(patch, callback) only
NextR ==
    \/ NotifyStepPlain
    \/ \E cb \in Callbacks : \E keys \in KeyLists(cb) \cup {{}} : Subscribe(cb, keys)
    \/ \E patch \in Patches, mode \in Callbacks : SetState(patch, mode)
    \/ \E t \in store.timers : FireTick(t)

SpecR == InitS /\ [][NextR]_vars

\* the state store with callbacks subscribed, unsubscribed and subscribed again
NextU ==
    \/ NotifyStepPlain
    \/ \E cb \in Callbacks : \E keys \in KeyLists(cb) : Subscribe(cb, keys)
    \/ \E cb \in Callbacks : Unsubscribe(cb)
    \/ \E cb \in Callbacks : \E keys \in KeyLists(cb) : SubscribeAgain(cb, keys)
    \/ \E patch \in Patches, mode \in Callbacks : SetState(patch, mode)
    \/ \E t \in store.timers : FireTick(t)

SpecU == InitS /\ [][NextU]_vars

\* the state store with callbacks that may throw
NextE ==
    \/ NotifyStepPlain
    \/ CallbackThrows
    \/ \E cb \in Callbacks : \E keys \in KeyLists(cb) \cup {{}} : Subscribe(cb, keys)
    \/ \E patch \in Patches, mode \in Callbacks : SetState(patch, mode)
    \/ \E t \in store.timers : FireTick(t)

SpecE == InitS /\ [][NextE]_vars

(***************************************************************************)
(* Properties of the idle queue scheduler (SpecQ)                          *)
(***************************************************************************)
\* the batch size _process passes to take: options.batchSize || 1
BatchSize == IF sch.opts.batchSize = 0 THEN 1 ELSE sch.opts.batchSize

\* the booked drain callbacks that have not fired
Drains == {t \in sch.timers : t.owner = "drain"}

\* s cut into consecutive chunks of b items, the last one shorter
RECURSIVE Chunks(_, _)
Chunks(s, b) ==
    IF Len(s) = 0 THEN <<>>
    ELSE <<SubSeq(s, 1, Min(b, Len(s)))>> \o Chunks(SubSeq(s, Min(b, Len(s)) + 1, Len(s)), b)

\* the batches the hook was invoked with, in order
HookBatches == [i \in 1..Len(sch.hookLog) |-> sch.hookLog[i].items]

\* nothing is booked and no hook result is unsettled: the scheduler is at rest
AtRest == sch.timers = {} /\ sch.pending = {}

\* C1: in blocking mode with an async hook whose results all resolve, once the
\* items enqueued before the first drain fired have been processed (the
\* scheduler is at rest), the hook was invoked with the consecutive FIFO chunks
\* of batchSize items of everything enqueued, each invocation starting with no
\* earlier awaitable unsettled.
C1_BlockingDrainsInChunks ==
    (/\ sch.opts.block
     /\ sch.onTake = "async" /\ ~sch.hookChanged
     /\ sch.destroys = 0 /\ ~sch.rejected /\ ~sch.lateEnqueue
     /\ sch.fired /\ AtRest)
    => /\ HookBatches = Chunks(sch.added, BatchSize)
       /\ \A i \in 1..Len(sch.hookLog) : sch.hookLog[i].inflight = 0

\* C2: in non-blocking mode, while destroy() has not been called, a non-empty
\* queue always has a drain booked: the next drain is requested right after a
\* drain fired, and by every enqueue.
C2_NonBlockingKeepsDraining ==
    (~sch.opts.block /\ sch.destroys = 0 /\ size(sch.q) > 0) => Drains # {}

\* C8: at most one booked drain is outstanding, in either mode.
C8_AtMostOnePendingDrain == Cardinality(Drains) <= 1

\* C8 witness: enqueue was called again while the first drain was still booked
C8_Witness ==
    /\ Cardinality(Drains) = 1
    /\ sch.enqueues >= 2 /\ size(sch.q) >= 2
    /\ ~sch.fired /\ sch.destroys = 0

(***************************************************************************)
(* Properties of the bounded queue (SpecBQ)                                *)
(***************************************************************************)
\* C10: take(n) removes and returns exactly min(n, size()) items from the
\* front in insertion order; the batches taken so far followed by the queue's
\* content are the accepted adds; with unique, adding an item already present
\* changes neither the size nor any position.
C10_TakeFifoAndUnique ==
    /\ bq.last.op = "take" =>
          /\ Len(bq.last.took) = Min(bq.last.arg, Len(bq.last.before))
          /\ bq.last.took = SubSeq(bq.last.before, 1, Len(bq.last.took))
          /\ Content(bq.q) = SubSeq(bq.last.before, Len(bq.last.took) + 1, Len(bq.last.before))
    /\ bq.accepted = bq.taken \o Content(bq.q)
    /\ (bq.last.op = "add" /\ bq.q.unique /\ bq.last.arg \in Range(bq.last.before)) =>
          Content(bq.q) = bq.last.before

\* C10 witness: unique queue, add 1, add 2, add 1 again, then take(2) gave <<1, 2>>
C10_Witness ==
    /\ bq.q.unique
    /\ bq.adds = 3 /\ Len(bq.accepted) = 2
    /\ bq.last.op = "take" /\ bq.last.arg = 2 /\ bq.last.took = <<1, 2>>

(***************************************************************************)
(* Properties of the state store (SpecS)                                   *)
(***************************************************************************)
\* the notification passes in progress
Passes == {store.stack[d] : d \in 1..Len(store.stack)}

\* the pass's forEach is over and the pass has not returned yet
Complete(f) == f.i >= f.n

\* how many times pass f invoked callback cb
Times(f, cb) == Cardinality({j \in 1..Len(f.called) : f.called[j].cb = cb})

\* prev overwritten field by field by the patches in order: a field takes the
\* value of the last patch that sets it, a field no patch sets keeps prev's
Merged(prev, patches) ==
    LET setters(k) == {i \in 1..Len(patches) : k \in DOMAIN patches[i]}
        last(k) == CHOOSE i \in setters(k) : \A j \in setters(k) : j <= i
        fields == DOMAIN prev \cup UNION {DOMAIN patches[i] : i \in 1..Len(patches)}
    IN  [k \in fields |-> IF setters(k) = {} THEN prev[k] ELSE patches[last(k)][k]]

\* some key of the list has loosely different values before and after pass
\* f's flush
KeyChanged(f, keys) ==
    \E k \in keys :
        LET a == Get(f.prev.val, k)
            b == Get(f.st.val, k)
        IN  IF a = Undefined \/ b = Undefined THEN a # b ELSE a[2] # b[2]

\* the patches in the pending list
Pending == [i \in 1..Len(store.stateChanges) |-> store.stateChanges[i].patch]

\* the flushes booked with the host that have not fired
TickTimers == {t \in store.timers : t.owner = "tick"}

\* C3: while the store is not disposed, every flush installs the pre-flush
\* state overwritten field by field by the patches passed to setState since
\* the previous flush, in order; the pending list is empty after the flush and
\* between flushes it holds exactly the patches not flushed yet.
C3_MergeOrder ==
    store.disposes = 0 =>
        /\ Pending = store.requested
        /\ \A f \in Passes :
              /\ f.flushed.pendingBefore = f.flushed.requested
              /\ f.st.val = Merged(f.prev.val, f.flushed.requested)
              /\ f.flushed.pendingAfter = 0

\* C3 witness: one flush merged {count: 1} and then {count: "1"}: the later
\* patch won
C3_Witness ==
    /\ store.disposes = 0
    /\ \E f \in Passes :
          /\ f.flushed.requested = <<[k \in {"count"} |-> Num(1)], [k \in {"count"} |-> Str(1)]>>
          /\ f.prev.val = InitialState
          /\ f.st.val = [k \in {"count"} |-> Str(1)]

\* C4: in every notification pass, a subscriber with a non-empty key list that
\* was live when the pass started has been invoked, once the pass is over,
\* exactly once if one of its keys has a (loosely) different value after the
\* flush than before it, and not at all otherwise.
C4_KeyScopedGating ==
    \A f \in Passes :
        Complete(f) =>
            \A r \in Range(f.live) :
                r.keys # {} =>
                    Times(f, r.cb) = IF KeyChanged(f, r.keys) THEN 1 ELSE 0

\* C5: when an unsubscribe closure was called during a notification pass,
\* every other subscriber live at the start of the pass has been invoked
\* exactly once (subject to its keys) when the pass is over, and no pass
\* invokes a callback that was unsubscribed before the pass started.
C5_SafeUnsubscribeDuringNotify ==
    \A f \in Passes :
        /\ (Complete(f) /\ f.unsubbed # {}) =>
              \A r \in Range(f.live) :
                  r.cb \notin f.unsubbed =>
                      Times(f, r.cb) = IF r.keys = {} \/ KeyChanged(f, r.keys) THEN 1 ELSE 0
        /\ \A j \in 1..Len(f.called) : f.called[j].cb \notin f.goneAtStart

\* C6: once the flush that applied the patch of a promise-form setState is
\* over, and unless the timeout fired before that flush, the promise is
\* resolved with the state object that flush installed.
C6_PromiseResolvesWithNewState ==
    store.stack = <<>> =>
        \A k \in 1..Len(store.promises) :
            (store.promises[k].applied # 0 /\ ~store.promises[k].expiredFirst) =>
                /\ store.promises[k].status = "resolved"
                /\ store.promises[k].value = store.promises[k].applied

\* C7: in deferred mode exactly one flush is booked while dirty is set and
\* none while it is clear, whatever setState and markDirty calls were made.
C7_AtMostOneScheduledFlush ==
    ~store.immediateFlush =>
        Cardinality(TickTimers) = IF store.dirty THEN 1 ELSE 0

\* C7 witness: two setState calls were made while the flush booked by the
\* constructor was outstanding, and still one flush is booked
C7_Witness ==
    /\ ~store.immediateFlush /\ store.dirty
    /\ Cardinality(TickTimers) = 1
    /\ store.setStates = 2 /\ Len(store.stateChanges) = 2

\* C9: in deferred mode, while the store is not disposed, the patches passed
\* to setState and not flushed yet wait for exactly one booked flush; the
\* flush installs the state merged from all of them and leaves none pending;
\* and when its notification pass is over every subscriber without keys live
\* at its start has been invoked exactly once, with the merged state.
C9_DeferredBatchOneNotification ==
    (~store.immediateFlush /\ store.disposes = 0) =>
        /\ store.requested # <<>> => Cardinality(TickTimers) = 1
        /\ \A f \in Passes :
              /\ f.st.val = Merged(f.prev.val, f.flushed.requested)
              /\ f.flushed.pendingAfter = 0
              /\ Complete(f) =>
                    \A r \in Range(f.live) :
                        r.keys = {} =>
                            /\ Times(f, r.cb) = 1
                            /\ \A j \in 1..Len(f.called) :
                                   f.called[j].cb = r.cb => f.called[j].st = f.st.id

\* C9 witness: create({count: 0}), subscribe(cb), setState({count: 1}),
\* setState({foo: "0"}); the initial flush fired and its pass invoked cb once
\* with {count: 1, foo: "0"}
C9_Witness ==
    /\ ~store.immediateFlush /\ store.disposes = 0
    /\ \E f \in Passes :
          /\ Complete(f)
          /\ f.prev.val = InitialState
          /\ f.flushed.requested = <<[k \in {"count"} |-> Num(1)], [k \in {"foo"} |-> Str(0)]>>
          /\ f.st.val = [k \in Keys |-> IF k = "count" THEN Num(1) ELSE Str(0)]
          /\ \E r \in Range(f.live) : r.keys = {} /\ r.cb = 1
          /\ f.called = <<[cb |-> 1, st |-> f.st.id]>>

\* the promises the promise-form setState calls returned
Promises == {store.promises[k] : k \in 1..Len(store.promises)}

\* C11 as stated: once the timeout of a promise-form setState has fired with
\* no flush having notified its wrapper, the returned promise stays unsettled.
C11_TimedOutPromiseNeverSettles ==
    \A p \in Promises :
        p.status = "rejected" => Returned(p).status = "pending"

\* C11 amended: once the timeout has fired with no flush having notified the
\* wrapper, the returned promise is resolved with undefined; the returned
\* promise is never rejected.
C11_TimedOutPromiseResolvesUndefined ==
    \A p \in Promises :
        /\ p.status = "rejected" =>
              (Returned(p).status = "resolved" /\ Returned(p).value = 0)
        /\ Returned(p).status # "rejected"

\* C11 witness: in deferred mode the timeout fired before any flush applied the
\* patch
C11_Witness ==
    /\ ~store.immediateFlush
    /\ \E p \in Promises : p.status = "rejected" /\ p.expiredFirst /\ p.applied = 0

\* C12: when a notification pass is over, every subscriber without keys that
\* was live at its start and was not unsubscribed during it has been invoked
\* exactly once by the pass, whether or not the flush had a pending patch.
C12_NoKeySubscriberInvokedOncePerFlush ==
    \A f \in Passes :
        Complete(f) =>
            \A r \in Range(f.live) :
                (r.keys = {} /\ r.cb \notin f.unsubbed) => Times(f, r.cb) = 1

\* no two records of the subscriber list hold the same callback
OneRecordPerCallback ==
    \A i, j \in 1..Len(store.subscribers) :
        store.subscribers[i].cb = store.subscribers[j].cb => i = j

\* every record of the subscriber list is still there, at its place and
\* with its keys, after the step
RecordsKept ==
    /\ Len(store'.subscribers) >= Len(store.subscribers)
    /\ \A i \in 1..Len(store.subscribers) : store'.subscribers[i] = store.subscribers[i]

\* C13: under any sequence of subscribe and setState(patch, callback) calls
\* the subscriber list holds at most one record per callback, no call changes
\* or moves a record already there (registering a registered callback adds
\* nothing and keeps its keys), and no notification pass invokes a callback
\* twice.
C13_OneRecordPerCallback ==
    /\ [](OneRecordPerCallback /\ \A f \in Passes : \A cb \in Callbacks : Times(f, cb) <= 1)
    /\ [][RecordsKept]_vars

\* C13 witness: callback 2 was registered with keys ["count"] and then passed
\* to setState (the one call made, its patch still pending): the list holds
\* the one record, with its keys
C13_Witness ==
    /\ ~store.immediateFlush
    /\ store.subscribers = <<[cb |-> 2, keys |-> {"count"}]>>
    /\ store.setStates = 1 /\ Len(store.stateChanges) = 1

(***************************************************************************)
(* More properties of the idle queue scheduler (SpecQ)                     *)
(***************************************************************************)
\* the step is a call of destroy()
DestroyStep == sch'.destroys = sch.destroys + 1

\* the step starts an invocation of the hook
HookStarts == Len(sch'.hookLog) > Len(sch.hookLog)

\* C14: a call of destroy() leaves the queue empty, the hook detached and no
\* drain booked, and leaves the unsettled results of hooks already invoked
\* alone; after destroy(), while nothing has been enqueued again, the queue is
\* empty and no drain is booked, and a hook invocation starts only if the
\* application attached a hook and enqueued an item after destroy().
C14_NothingRunsAfterDestroy ==
    /\ []((sch.destroys > 0 /\ sch.added = <<>>) => (size(sch.q) = 0 /\ Drains = {}))
    /\ [][DestroyStep =>
              /\ size(sch'.q) = 0 /\ sch'.onTake = "none" /\ Drains' = {}
              /\ sch'.pending = sch.pending /\ sch'.hookLog = sch.hookLog]_vars
    /\ [][(sch.destroys > 0 /\ HookStarts) =>
              (sch.onTake # "none" /\ sch.added # <<>>)]_vars

\* C14 witness: destroy() was called while the first drain was booked and had
\* not fired; nothing is booked any more
C14_Witness ==
    /\ sch.destroys = 1 /\ sch.enqueues >= 1 /\ ~sch.fired
    /\ sch.cancel # 0 /\ sch.added = <<>>
    /\ Drains = {}

(***************************************************************************)
(* More properties of the state store                                      *)
(***************************************************************************)
\* C15: once dispose() has returned (the store is not used again), the pending
\* list is empty, the current value is an empty object, the subscriber list
\* and the removal list are empty, and the notification passes of the flushes
\* that start afterwards invoke no callback.
C15_DisposeDetachesEverything ==
    store.disposes > 0 =>
        /\ store.stateChanges = <<>>
        /\ store.state.val = EmptyObject
        /\ store.subscribers = <<>> /\ store.removed = <<>>
        /\ \A f \in Passes : f.called = <<>>

\* C15 witness: a promise-form setState registered its wrapper, dispose() was
\* called, and the flush booked before dispose() fired: its pass is over and
\* the wrapper was not invoked
C15_Witness ==
    /\ store.disposes = 1 /\ ~store.immediateFlush
    /\ \E p \in Promises : p.status = "pending" /\ p.timer # 0
    /\ \E f \in Passes : Complete(f) /\ f.called = <<>>

\* C16: in deferred mode, once dispose() has been called no flush is booked
\* any more and none runs: no notification pass is in progress.
C16_DisposeCancelsScheduledFlush ==
    (~store.immediateFlush /\ store.disposes > 0) =>
        (TickTimers = {} /\ Passes = {})

\* the references to state objects held by the store and by the passes in
\* progress (the state and prevState arguments of notify)
StateRefs == {store.state} \cup {f.st : f \in Passes} \cup {f.prev : f \in Passes}

\* C17: the state object a flush installs is not the object that was current
\* before it, with or without pending patches, and no object is changed in
\* place: two references to the same object never show different values.
C17_FreshStateObject ==
    /\ \A f \in Passes : f.st.id # f.prev.id
    /\ \A a, b \in StateRefs : a.id = b.id => a.val = b.val

\* C17 witness: in deferred mode the booked flush ran with no pending patch:
\* getState() returns its new object, equal in value to the previous one and distinct from it
C17_Witness ==
    \E f \in Passes :
        /\ ~store.immediateFlush
        /\ f.flushed.pendingBefore = <<>>
        /\ store.state = f.st
        /\ f.st.val = f.prev.val /\ f.st.id # f.prev.id
        /\ f.prev.val = InitialState

(***************************************************************************)
(* Properties of nextTime (SpecT)                                          *)
(***************************************************************************)
\* the mechanism of the priority order: idle-time if asked for and available,
\* else frame scheduling if available, else a zero-delay macrotask
Expected(host, useIdle) ==
    IF useIdle /\ host.idle = "function" THEN "idle"
    ELSE IF host.frame = "function" THEN "frame"
    ELSE "timeout"

\* the cancellation primitive that goes with each mechanism
Matching(mech) ==
    CASE mech = "idle" -> "cancelIdleCallback"
      [] mech = "frame" -> "cancelAnimationFrame"
      [] mech = "timeout" -> "clearTimeout"

\* C18: on every host and for either value of useIdle, every call of nextTime
\* succeeds, books its callback exactly once, with the mechanism of the
\* priority order, and returns a cancel closure that calls the matching
\* primitive: once the closure has been called the callback is not booked.
C18_MechanismByPriority ==
    \A k \in 1..Len(dfr.calls) :
        LET c == dfr.calls[k]
            booked == {t \in dfr.timers : t.id = c.id}
            mech == Expected(dfr.host, c.useIdle)
        IN  /\ ~c.threw
            /\ c.primitive = Matching(mech)
            /\ \A t \in booked : t.mech = mech
            /\ Cardinality(booked) = IF c.cancelled \/ c.fired THEN 0 ELSE 1

(***************************************************************************)
(* More properties of the scheduler (SpecQ) and of the store (SpecS)       *)
(***************************************************************************)
\* C19: in every state the stored cancel handle (_cancel) is present if and
\* only if a drain is booked and has not fired.
C19_CancelHandleIffDrainBooked == (sch.cancel # 0) <=> (Drains # {})

\* C20: in immediateFlush mode, when a callback of a notification pass called
\* setState and so ran a nested pass, the outer pass, once over, has invoked
\* exactly once (subject to its keys) every subscriber that was live when it
\* started and was not unsubscribed during it.
C20_OuterPassSeesStableList ==
    store.immediateFlush =>
        \A f \in Passes :
            (Complete(f) /\ f.nested) =>
                \A r \in Range(f.live) :
                    r.cb \notin f.unsubbed =>
                        Times(f, r.cb) = IF r.keys = {} \/ KeyChanged(f, r.keys) THEN 1 ELSE 0

(***************************************************************************)
(* Properties of the store when a callback throws (SpecE)                  *)
(***************************************************************************)
\* the step is a callback throwing
Thrown == store'.throws > store.throws

\* the pass whose callback is being invoked
Innermost == store.stack[Len(store.stack)]

\* a flush is booked with the host
TickBooked == \E t \in store.timers : t.owner = "tick"

\* what a throw leaves of the pass and of its flush: no pass is in progress
\* any more, so no later subscriber is invoked; _state is the flush's new
\* state (or a newer one, of a pass a callback ran inside) and not the
\* previous one; _stateChanges is as it was
AbortKeepsFlush ==
    /\ store'.stack = <<>>
    /\ store'.state = store.state
    /\ store'.state # Innermost.prev
    /\ ~Innermost.nested => store'.state = Innermost.st
    /\ store'.stateChanges = store.stateChanges
    /\ Innermost.flushed.pendingAfter = 0

\* C21: when a subscriber callback throws during a notification pass, the
\* pass is left and no later subscriber is invoked, the state swap is not
\* rolled back, the drained patches are not re-queued, and dirty is false.
C21_ThrowLeavesDirtyFalse ==
    [][Thrown => (AbortKeepsFlush /\ ~store'.dirty)]_vars

\* C21 as amended: when a subscriber callback throws during a notification
\* pass, the pass is left and no later subscriber is invoked, the state swap
\* is not rolled back, the drained patches are not re-queued, and dirty is
\* left as it was: false, or true with the flush still booked that a
\* setState made by a callback of the pass has scheduled.
C21_ThrowLeavesFlushUsable ==
    [][Thrown => (/\ AbortKeepsFlush
                  /\ store'.dirty = store.dirty
                  /\ store'.dirty => (~store.immediateFlush /\ TickBooked'))]_vars

\* C21 witness: a callback threw while a subscriber after it in the list had
\* not been invoked; the state is the one the aborted flush installed, no
\* patch is queued and dirty is false
C21_Witness ==
    /\ store.throws > 0 /\ store.stack = <<>>
    /\ ~store.dirty /\ store.stateChanges = <<>>
    /\ LET f == store.aborted[Len(store.aborted)]
       IN  /\ store.state = f.st
           /\ Len(f.flushed.pendingBefore) > 0
           /\ \E r \in Range(f.live) : r.keys = {} /\ Times(f, r.cb) = 0

(***************************************************************************)
(* Properties of subscribing again (SpecU)                                 *)
(***************************************************************************)
\* callback cb has a record in _subscribers that is not marked for removal
Registered(cb) ==
    /\ FindSubscriber(store.subscribers, cb) # 0
    /\ \A r \in Range(store.removed) : r.cb # cb

\* C22: a callback passed to subscribe again after its unsubscribe closure was
\* called, before a pass ran, is registered from then on until its closure is
\* called again, and every flush that is over has invoked it once (subject to
\* the keys it was subscribed with).
C22_SubscribeAgainRegisters ==
    \A a \in store.again :
        /\ store.stack = <<>> => Registered(a.cb)
        /\ \A f \in Passes :
              Complete(f) =>
                  Times(f, a.cb) = IF a.keys = {} \/ KeyChanged(f, a.keys) THEN 1 ELSE 0

====
